---- MODULE Spec2Model ----
(***************************************************************************)
(* The CartTotals component of                                             *)
(* src/modules/common/components/cart-totals/index.tsx: a function of the  *)
(* `data` prop that builds the rows of the totals block.  Every render     *)
(* evaluates the function again on the current prop.                       *)
(***************************************************************************)
EXTENDS Integers, Sequences, FiniteSets

\* ------------------------------------------------------------------ bounds

\* Numeric amounts range over -1 .. MaxAmt (minor units): one negative
\* amount, zero, and the positive amounts up to MaxAmt.
MaxAmt == 1

\* ------------------------------------------------------- JavaScript values

\* A value of type `number | null | undefined`.  NaN is a value of the
\* number type that is not a number; n is meaningful for k = "number" only.
Null == [k |-> "null", n |-> 0]

Undefined == [k |-> "undefined", n |-> 0]

NaN == [k |-> "NaN", n |-> 0]

Num(i) == [k |-> "number", n |-> i]

Amounts == {Null, Undefined, NaN} \cup {Num(i) : i \in (0 - 1) .. MaxAmt}

Regions == {"eur", "usd"}

MoneyFields ==
  {"subtotal", "discount_total", "gift_card_total", "tax_total",
   "shipping_total", "total"}

\* The records the component can be given: six monetary fields and a region.
Records ==
  [subtotal : Amounts, discount_total : Amounts, gift_card_total : Amounts,
   tax_total : Amounts, shipping_total : Amounts, total : Amounts,
   region : Regions]

\* (a variant that takes only positive numbers as truthy)
TruthyPositiveOnly(v) == v.k = "number" /\ v.n > 0

\* JavaScript ToBoolean on such a value (`!!x`): null, undefined, NaN and 0
\* are falsy, every other number is truthy.
Truthy(v) == v.k = "number" /\ v.n # 0

\* (a variant without the fallback: the left operand as it is)
OrKeepsLeft(a, b) == a

\* (a variant with `??` in place of `||`)
OrNullish(a, b) == IF a.k \in {"null", "undefined"} THEN b ELSE a

\* JavaScript `a || b`: a when a is truthy, b otherwise.
Or(a, b) == IF Truthy(a) THEN a ELSE b

\* ------------------------------------------------------------ the formatter

FormatterError == [failed |-> TRUE]

\* formatAmount of @lib/util/prices: the display string of a numeric amount
\* for a region, the same string for the same arguments.  Its parameter
\* `amount` is a number: null or undefined there is outside its contract and
\* is taken to fail.
formatAmount(args) ==
  IF args.amount.k \in {"null", "undefined"}
  THEN FormatterError
  ELSE [failed |-> FALSE, currency |-> args.region, amount |-> args.amount,
        includeTaxes |-> args.includeTaxes]

\* (a variant that leaves includeTaxes at the formatter's default, true)
getAmountArgsWithTaxes(amount, d) ==
  [amount |-> Or(amount, Num(0)), region |-> d.region, includeTaxes |-> TRUE]

\* The argument object getAmount builds for formatAmount.
getAmountArgs(amount, d) ==
  [amount |-> Or(amount, Num(0)), region |-> d.region, includeTaxes |-> FALSE]

getAmount(amount, d) == formatAmount(getAmountArgs(amount, d))

\* ------------------------------------------------------------------ the rows

\* A <span data-testid=... data-value=...>children</span> of the block, with
\* the label beside it.  `text` is the span's children: the formatter's
\* string, preceded by the literal "- " in the two deduction rows.  `call` is
\* the argument object of the formatAmount call made while building the row.
Row(testid, label, amount, d, marker) ==
  [testid |-> testid, label |-> label, value |-> Or(amount, Num(0)),
   text |-> marker \o <<getAmount(amount, d)>>,
   call |-> getAmountArgs(amount, d)]

SubtotalRow(d) == <<Row("cart-subtotal", "Subtotal", d.subtotal, d, <<>>)>>

DiscountRow(d) ==
  IF Truthy(d.discount_total)
  THEN <<Row("cart-discount", "Discount", d.discount_total, d, <<"- ">>)>>
  ELSE <<>>

\* (a variant that hides a zero shipping amount as the deductions are hidden)
ShippingRowHidingZero(d) ==
  IF Truthy(d.shipping_total)
  THEN <<Row("cart-shipping", "Shipping", d.shipping_total, d, <<>>)>>
  ELSE <<>>

ShippingRow(d) == <<Row("cart-shipping", "Shipping", d.shipping_total, d, <<>>)>>

TaxesRow(d) == <<Row("cart-taxes", "Taxes", d.tax_total, d, <<>>)>>

\* (a variant without the "- " before the amount)
GiftCardRowNoMarker(d) ==
  IF Truthy(d.gift_card_total)
  THEN <<Row("cart-gift-card-amount", "Gift card", d.gift_card_total, d, <<>>)>>
  ELSE <<>>

\* (a variant that shows the magnitude of a negative gift card amount)
GiftCardRowAbsolute(d) ==
  IF Truthy(d.gift_card_total)
  THEN <<Row("cart-gift-card-amount", "Gift card",
             IF d.gift_card_total.n < 0
             THEN Num(0 - d.gift_card_total.n) ELSE d.gift_card_total,
             d, <<"- ">>)>>
  ELSE <<>>

GiftCardRow(d) ==
  IF Truthy(d.gift_card_total)
  THEN <<Row("cart-gift-card-amount", "Gift card", d.gift_card_total, d, <<"- ">>)>>
  ELSE <<>>

\* The sum a recomputed total would show (numbers only; absent counts as 0).
N(v) == IF v.k = "number" THEN v.n ELSE 0

\* (a variant that recomputes the total from the other five fields)
TotalRowRecomputed(d) ==
  <<Row("cart-total", "Total",
        Num(N(d.subtotal) - N(d.discount_total) + N(d.shipping_total)
            + N(d.tax_total) - N(d.gift_card_total)), d, <<>>)>>

TotalRow(d) == <<Row("cart-total", "Total", d.total, d, <<>>)>>

\* (a variant with the Gift card block above the Taxes block)
BuiltRowsGiftCardBeforeTaxes(d) ==
  SubtotalRow(d) \o DiscountRow(d) \o ShippingRow(d) \o GiftCardRow(d)
    \o TaxesRow(d) \o TotalRow(d)

\* The JSX of CartTotals, top to bottom.
BuiltRows(d) ==
  SubtotalRow(d) \o DiscountRow(d) \o ShippingRow(d) \o TaxesRow(d)
    \o GiftCardRow(d) \o TotalRow(d)

\* Positions of the rows whose formatAmount call failed.
Failures(rs) == {i \in 1 .. Len(rs) : rs[i].text[Len(rs[i].text)].failed}

Min(S) == CHOOSE x \in S : \A y \in S : x <= y

\* One evaluation of the component on the prop d: the rows it returns, the
\* formatAmount calls it made in order, and whether an exception left it.
\* An exception of formatAmount is not caught: nothing is returned, and the
\* calls stop at the failing one.
CartTotals(d) ==
  LET rs == BuiltRows(d)
      bad == Failures(rs)
  IN  IF bad = {}
      THEN [rows |-> [i \in 1 .. Len(rs) |->
                        [testid |-> rs[i].testid, label |-> rs[i].label,
                         value |-> rs[i].value, text |-> rs[i].text]],
            calls |-> [i \in 1 .. Len(rs) |-> rs[i].call],
            threw |-> FALSE]
      ELSE [rows |-> <<>>, calls |-> [i \in 1 .. Min(bad) |-> rs[i].call],
            threw |-> TRUE]

\* ------------------------------------------------------------- state machine

VARIABLES
  data,       \* the `data` prop held by the parent view
  phase,      \* "created": not rendered yet; "mounted": rendered once;
              \* "updated": rendered again, any number of times
  rendered,   \* the rows of the latest render
  calls,      \* the formatAmount calls of the latest render
  threw,      \* whether the latest render ended in an exception
  previous    \* the rows of the render before the latest

vars == <<data, phase, rendered, calls, threw, previous>>

Init ==
  /\ data \in Records
  /\ phase = "created"
  /\ rendered = <<>>
  /\ calls = <<>>
  /\ threw = FALSE
  /\ previous = <<>>

\* (a variant that negates the two deductions in the prop itself, to show
\* them as negative amounts, instead of leaving the prop as it was given)
RenderNegatingInPlace ==
  LET negate(v) == IF v.k = "number" THEN Num(0 - v.n) ELSE v
      d == [data EXCEPT !.discount_total = negate(@),
                        !.gift_card_total = negate(@)]
      out == CartTotals(d)
  IN  /\ rendered' = out.rows
      /\ calls' = out.calls
      /\ threw' = out.threw
      /\ previous' = rendered
      /\ phase' = IF phase = "created" THEN "mounted" ELSE "updated"
      /\ data' = d

\* The view renders the component, the first time or again: CartTotals runs
\* on the current prop, which it reads and never assigns.
Render ==
  LET out == CartTotals(data)
  IN  /\ rendered' = out.rows
      /\ calls' = out.calls
      /\ threw' = out.threw
      /\ previous' = rendered
      /\ phase' = IF phase = "created" THEN "mounted" ELSE "updated"
      /\ data' = data

Next == Render

Spec == Init /\ [][Next]_vars

\* -------------------------------------------------------------- vocabulary

\* The field of the record a row displays.
FieldOf(testid) ==
  CASE testid = "cart-subtotal" -> "subtotal"
    [] testid = "cart-discount" -> "discount_total"
    [] testid = "cart-shipping" -> "shipping_total"
    [] testid = "cart-taxes" -> "tax_total"
    [] testid = "cart-gift-card-amount" -> "gift_card_total"
    [] testid = "cart-total" -> "total"

\* Positions of the rendered rows with a given identifier.
RowsWith(testid) == {i \in 1 .. Len(rendered) : rendered[i].testid = testid}

HasRow(testid) == RowsWith(testid) # {}

Rendered == phase # "created"

\* The reference operator `f ?? 0`.
Nullish(v) == IF v \in {Null, Undefined} THEN Num(0) ELSE v

\* The string the formatter gives for an amount with the record's region and
\* taxes not included.
Formatted(amount) ==
  formatAmount([amount |-> amount, region |-> data.region, includeTaxes |-> FALSE])

\* C1: a rendered row whose field is null or undefined has raw value 0, and
\* no render ends in an exception, whatever fields are null or undefined.
C1_AbsentFieldShowsZero ==
  Rendered =>
    /\ ~threw
    /\ \A i \in 1 .. Len(rendered) :
         data[FieldOf(rendered[i].testid)] \in {Null, Undefined}
           => rendered[i].value = Num(0)

\* Scenario C: every monetary field absent; four rows, each with raw value 0.
C1_Witness ==
  /\ Rendered
  /\ \A f \in MoneyFields : data[f] \in {Null, Undefined}
  /\ data.subtotal = Null /\ data.total = Undefined
  /\ Len(rendered) = 4
  /\ \A i \in 1 .. 4 :
       rendered[i].value = Num(0) /\ rendered[i].text = <<Formatted(Num(0))>>

\* A number other than zero: not null, not undefined, not NaN, not 0.
IsNonZeroNumber(v) == v \notin {Null, Undefined, NaN, Num(0)}

\* C2: the Discount row is present exactly when discount_total is a non-zero
\* number, the Gift card row exactly when gift_card_total is one; each
\* depends on its own field only.
C2_OptionalRowsIffNonZero ==
  Rendered =>
    /\ HasRow("cart-discount") <=> IsNonZeroNumber(data.discount_total)
    /\ HasRow("cart-gift-card-amount") <=> IsNonZeroNumber(data.gift_card_total)

\* Scenario B: a discount beside a null gift card gives a Discount row and
\* no Gift card row.
C2_Witness ==
  /\ Rendered
  /\ data.discount_total = Num(1) /\ data.gift_card_total = Null
  /\ HasRow("cart-discount") /\ ~HasRow("cart-gift-card-amount")

AlwaysVisible == {"cart-subtotal", "cart-shipping", "cart-taxes", "cart-total"}

\* C3: whatever the six fields hold, the output has exactly one Subtotal,
\* one Shipping, one Taxes and one Total row.
C3_FourRowsAlways ==
  Rendered => \A t \in AlwaysVisible : Cardinality(RowsWith(t)) = 1

\* Scenario A with a zero shipping amount: four rows, no deduction row.
C3_Witness ==
  /\ Rendered
  /\ data.subtotal = Num(1) /\ data.discount_total = Num(0)
  /\ data.gift_card_total = Num(0) /\ data.shipping_total = Num(0)
  /\ data.tax_total = Null /\ data.total = Num(1)
  /\ Len(rendered) = 4
  /\ \A t \in AlwaysVisible : Cardinality(RowsWith(t)) = 1

RowOrder == <<"Subtotal", "Discount", "Shipping", "Taxes", "Gift card", "Total">>

\* Whether the row with this label is to be shown for the current record.
Shown(label) ==
  CASE label = "Discount" -> IsNonZeroNumber(data.discount_total)
    [] label = "Gift card" -> IsNonZeroNumber(data.gift_card_total)
    [] OTHER -> TRUE

Labels == [i \in 1 .. Len(rendered) |-> rendered[i].label]

\* C4: the labels of the output are the fixed list Subtotal, Discount,
\* Shipping, Taxes, Gift card, Total with the hidden optional rows removed;
\* Subtotal is first and Total last.
C4_FixedOrder ==
  Rendered =>
    /\ Labels = SelectSeq(RowOrder, Shown)
    /\ Labels[1] = "Subtotal"
    /\ Labels[Len(Labels)] = "Total"

\* All six rows shown, in the fixed order.
C4_Witness ==
  /\ Rendered
  /\ IsNonZeroNumber(data.discount_total)
  /\ IsNonZeroNumber(data.gift_card_total)
  /\ Labels = RowOrder

Deductions == {"cart-discount", "cart-gift-card-amount"}

\* C5: the text of a Discount or Gift card row is "- " followed by the
\* formatter's string for the row's amount; the text of the other four rows
\* is the formatter's string alone.
C5_NegativeMarker ==
  Rendered =>
    \A i \in 1 .. Len(rendered) :
      rendered[i].text =
        IF rendered[i].testid \in Deductions
        THEN <<"- ", formatAmount(calls[i])>>
        ELSE <<formatAmount(calls[i])>>

\* Scenario B: the discount shown as "- {format(1)}", shipping shown with 0.
C5_Witness ==
  /\ Rendered
  /\ data.discount_total = Num(1) /\ data.gift_card_total = Null
  /\ data.shipping_total = Num(0)
  /\ \E i \in RowsWith("cart-discount") :
       rendered[i].text = <<"- ", Formatted(Num(1))>>
  /\ \E i \in RowsWith("cart-shipping") :
       rendered[i].text = <<Formatted(Num(0))>>

\* C6 as stated: the raw value of every rendered row, and the amount handed
\* to the formatter for it, is f ?? 0 for the row's field f.
C6_EffectiveIsNullish ==
  Rendered =>
    \A i \in 1 .. Len(rendered) :
      /\ rendered[i].value = Nullish(data[FieldOf(rendered[i].testid)])
      /\ calls[i].amount = Nullish(data[FieldOf(rendered[i].testid)])

\* C6 as amended: the raw value of every rendered row, and the amount handed
\* to the formatter for it, is f ?? 0 for every field value f other than
\* NaN, and 0 for NaN.
C6_EffectiveIsNullishExceptNaN ==
  Rendered =>
    \A i \in 1 .. Len(rendered) :
      LET f == data[FieldOf(rendered[i].testid)]
          e == IF f = NaN THEN Num(0) ELSE Nullish(f)
      IN  rendered[i].value = e /\ calls[i].amount = e

\* A NaN subtotal shown as 0 beside a negative total shown as it is and an
\* undefined shipping amount shown as 0.
C6_Witness ==
  /\ Rendered
  /\ data.subtotal = NaN /\ data.total = Num(0 - 1)
  /\ data.shipping_total = Undefined
  /\ \E i \in RowsWith("cart-subtotal") :
       rendered[i].value = Num(0) /\ calls[i].amount = Num(0)
  /\ \E i \in RowsWith("cart-total") :
       rendered[i].value = Num(0 - 1) /\ calls[i].amount = Num(0 - 1)
  /\ \E i \in RowsWith("cart-shipping") : rendered[i].value = Num(0)

\* C7: the formatter is called once per rendered row, in row order, with the
\* row's amount, the region of the record and includeTaxes = false; no call
\* is made for a hidden optional row.
C7_FormatterCalls ==
  Rendered =>
    /\ Len(calls) = Len(rendered)
    /\ Len(calls) = Cardinality({l \in DOMAIN RowOrder : Shown(RowOrder[l])})
    /\ \A i \in 1 .. Len(calls) :
         /\ calls[i].region = data.region
         /\ calls[i].includeTaxes = FALSE
         /\ calls[i].amount = rendered[i].value

\* A hidden discount and a shown gift card: five calls, all for "usd".
C7_Witness ==
  /\ Rendered
  /\ data.region = "usd"
  /\ data.discount_total = Num(0) /\ data.gift_card_total = Num(1)
  /\ Len(calls) = 5
  /\ \A i \in 1 .. 5 : calls[i].region = "usd" /\ ~calls[i].includeTaxes

\* The Total row among the rows of an evaluation.
TotalOf(rows) == {rows[i] : i \in {j \in 1 .. Len(rows) : rows[j].testid = "cart-total"}}

\* The record that keeps the total and the region of d and nothing else.
OnlyTotal(d) ==
  [subtotal |-> Null, discount_total |-> Null, gift_card_total |-> Null,
   tax_total |-> Null, shipping_total |-> Null, total |-> d.total,
   region |-> d.region]

\* C8: the Total row is a function of total and region alone: it is the
\* Total row of the record that keeps only those two, so any two records
\* with the same total and region have the same Total row; and a numeric
\* total, negative ones included, is shown as supplied: raw value the total,
\* text the formatter's string for it.
C8_TotalTrustedAsSupplied ==
  Rendered =>
    /\ Cardinality(TotalOf(rendered)) = 1
    /\ TotalOf(rendered) = TotalOf(CartTotals(OnlyTotal(data)).rows)
    /\ data.total.k = "number" =>
         \A t \in TotalOf(rendered) :
           t.value = data.total /\ t.text = <<Formatted(data.total)>>

\* A negative total beside parts that would sum to 2: shown as -1.
C8_Witness ==
  /\ Rendered
  /\ data.total = Num(0 - 1)
  /\ data.subtotal = Num(1) /\ data.shipping_total = Num(1)
  /\ data.tax_total = Num(0) /\ data.discount_total = Num(0)
  /\ data.gift_card_total = Num(0)
  /\ \E t \in TotalOf(rendered) :
       t.value = Num(0 - 1) /\ t.text = <<Formatted(Num(0 - 1))>>

IsNegative(v) == v.k = "number" /\ v.n < 0

\* C10: a negative discount_total or gift_card_total shows its row, with the
\* negative number as raw value and "- " followed by the formatter's string
\* for that negative number as text.
C10_NegativeDeductionShown ==
  Rendered =>
    \A t \in Deductions :
      IsNegative(data[FieldOf(t)]) =>
        /\ Cardinality(RowsWith(t)) = 1
        /\ \A i \in RowsWith(t) :
             /\ rendered[i].value = data[FieldOf(t)]
             /\ rendered[i].text = <<"- ", Formatted(data[FieldOf(t)])>>
             /\ calls[i].amount = data[FieldOf(t)]

\* A gift card of -1: its row has raw value -1 and text "- " format(-1).
C10_Witness ==
  /\ Rendered
  /\ data.gift_card_total = Num(0 - 1) /\ data.discount_total = Num(0 - 1)
  /\ \E i \in RowsWith("cart-gift-card-amount") :
       /\ rendered[i].value = Num(0 - 1)
       /\ rendered[i].text = <<"- ", Formatted(Num(0 - 1))>>
  /\ HasRow("cart-discount")

====
